---- MODULE Spec2Model ----
(***************************************************************************)
(* Model of the iced_picker tree picker (src/src/lib.rs) and of the host   *)
(* application that drives it (src/examples/file_picker.rs).               *)
(*                                                                         *)
(* A widget is modelled by the data the code puts into it.  A Column is    *)
(* the sequence of its children in push order, which is also the order in  *)
(* which the toolkit stacks them from top to bottom.  An Option is the     *)
(* empty sequence (None) or a one-element sequence (Some).                 *)
(***************************************************************************)
EXTENDS Integers, Sequences, FiniteSets, TLC

VARIABLES items, expanded_folders, selected_path, on_select, indent_size,
          view, calls, event

vars == <<items, expanded_folders, selected_path, on_select, indent_size,
          view, calls, event>>

\* Largest number of items in a tree handed to picker.
MaxNodes == 4

\* The identity under which the host pre-seeds "expanded" (its root_path,
\* which is not itself an item of the tree).
RootPath == 0

\* The indent size the host passes to picker.
HostIndent == 10

\* Indent sizes tried for picker in general.
IndentSizes == {3, HostIndent}

None == <<>>
Some(x) == <<x>>

----------------------------------------------------------------------------
(* PickerItem and its builder methods.                                     *)

new(id, label) ==
    [id |-> id, label |-> label, icon |-> None, icon_font |-> None,
     children |-> <<>>, selectable |-> TRUE]

with_icon(item, icon, font) ==
    [item EXCEPT !.icon = Some(icon), !.icon_font = Some(font)]

with_children(item, children) == [item EXCEPT !.children = children]

selectable(item, b) == [item EXCEPT !.selectable = b]

----------------------------------------------------------------------------
(* HashMap<Id, bool> as a function on the set of keys present.             *)

EmptyMap == [k \in {} |-> FALSE]

get(map, k) == IF k \in DOMAIN map THEN Some(map[k]) ELSE None

unwrap_or(opt, default) == IF opt = None THEN default ELSE opt[1]

\* Variant: the map is rebuilt from the inserted entry alone.
insert_replacing(map, k, v) == [x \in {k} |-> v]

insert(map, k, v) == [x \in (DOMAIN map) \cup {k} |-> IF x = k THEN v ELSE map[x]]

\* A message constructor (Message::ToggleFolder, Message::SelectItem)
\* applied to an identity.
Call(f, id) == [type |-> f, path |-> id]

----------------------------------------------------------------------------
(* render_item, piece by piece.                                            *)

has_children(item) == item.children # <<>>

\* Variant: an absent entry counts as expanded.
is_expanded_default_open(item, expanded_items) ==
    unwrap_or(get(expanded_items, item.id), TRUE)

is_expanded(item, expanded_items) ==
    unwrap_or(get(expanded_items, item.id), FALSE)

\* Variant: the two glyphs exchanged.
arrow_swapped(item, expanded_items) ==
    IF unwrap_or(get(expanded_items, item.id), FALSE) THEN "▶" ELSE "▼"

arrow(item, expanded_items) ==
    IF is_expanded(item, expanded_items) THEN "▼" ELSE "▶"

\* Variant: the depth counted from one.
indent_from_one(depth, indent_size_) == (depth + 1) * indent_size_

\* Width of the leading Space.
indent(depth, indent_size_) == depth * indent_size_

\* Variant: on_press is set whether or not the item has children.
toggle_button_always_pressable(item, expanded_items, on_toggle) ==
    [text |-> IF unwrap_or(get(expanded_items, item.id), FALSE)
              THEN "▼" ELSE "▶",
     text_color |-> IF item.children # <<>>
                    THEN "base_text" ELSE "TRANSPARENT",
     on_press |-> Some(Call(on_toggle, item.id))]

\* The toggle button: pressable for an item with children, otherwise a
\* button without on_press whose text is drawn in the transparent colour.
toggle_button(item, expanded_items, on_toggle) ==
    IF has_children(item)
    THEN [text |-> arrow(item, expanded_items), text_color |-> "base_text",
          on_press |-> Some(Call(on_toggle, item.id))]
    ELSE [text |-> arrow(item, expanded_items), text_color |-> "TRANSPARENT",
          on_press |-> None]

item_row(item, expanded_items, on_toggle, indent_size_, depth) ==
    [indent |-> indent(depth, indent_size_),
     toggle |-> toggle_button(item, expanded_items, on_toggle),
     icon |-> item.icon, icon_font |-> item.icon_font,
     label |-> item.label]

non_button_row(row) ==
    [widget |-> "container", content |-> row, padding |-> 0,
     width |-> "Fill", on_press |-> None]

\* Variant: the selectable flag of the item is not consulted.
item_element_ignoring_flag(item, row, select) ==
    IF select # None
    THEN [widget |-> "button", content |-> row, padding |-> 0,
          width |-> "Fill", on_press |-> Some(Call(select[1], item.id))]
    ELSE non_button_row(row)

\* The row, wrapped in a button when the item is selectable and a select
\* callback was given.
item_element(item, row, select) ==
    IF item.selectable
    THEN IF select # None
         THEN [widget |-> "button", content |-> row, padding |-> 0,
               width |-> "Fill", on_press |-> Some(Call(select[1], item.id))]
         ELSE non_button_row(row)
    ELSE non_button_row(row)

\* Variant: the children are pushed whenever there are any.
column_always_open(item, expanded_items, element, children_columns) ==
    IF has_children(item) THEN <<element>> \o children_columns
    ELSE <<element>>

\* Variant: an expanded item without children gets a placeholder row below.
column_with_placeholder(item, expanded_items, element, children_columns) ==
    IF is_expanded(item, expanded_items)
    THEN IF has_children(item)
         THEN <<element>> \o children_columns
         ELSE <<element, <<non_button_row(element.content)>>>>
    ELSE <<element>>

\* The Column of an item: its element, then the Columns of its children
\* when it has children and is expanded.
column(item, expanded_items, element, children_columns) ==
    IF has_children(item) /\ is_expanded(item, expanded_items)
    THEN <<element>> \o children_columns
    ELSE <<element>>

RECURSIVE render_item(_, _, _, _, _, _)
render_item(item, expanded_items, on_toggle, select, indent_size_, depth) ==
    column(item, expanded_items,
           item_element(item,
                        item_row(item, expanded_items, on_toggle,
                                 indent_size_, depth),
                        select),
           [k \in 1..Len(item.children) |->
               render_item(item.children[k], expanded_items, on_toggle,
                           select, indent_size_, depth + 1)])

\* Variant: the root items pushed last to first.
picker_reversed(its, expanded_items, on_toggle, select, indent_size_) ==
    [widget |-> "scrollable", spacing |-> 2,
     content |-> [k \in 1..Len(its) |->
                     render_item(its[Len(its) + 1 - k], expanded_items,
                                 on_toggle, select, indent_size_, 0)]]

\* picker: one Column per root item, at depth 0, inside a scrollable.
picker(its, expanded_items, on_toggle, select, indent_size_) ==
    [widget |-> "scrollable", spacing |-> 2,
     content |-> [k \in 1..Len(its) |->
                     render_item(its[k], expanded_items, on_toggle, select,
                                 indent_size_, 0)]]

\* The callback invocations of one picker call, in the order they are made:
\* building an element invokes on_toggle for the on_press of its toggle
\* button and the select callback for the on_press of its row button, and
\* every element of the returned widget tree was built once.
RECURSIVE element_calls(_)
RECURSIVE columns_calls(_)
element_calls(col) ==
    col[1].content.toggle.on_press \o col[1].on_press
    \o columns_calls(Tail(col))
columns_calls(cols) ==
    IF cols = <<>> THEN <<>>
    ELSE element_calls(Head(cols)) \o columns_calls(Tail(cols))

picker_calls(widget) == columns_calls(widget.content)

----------------------------------------------------------------------------
(* Trees.  A forest of n items is given by the depths of its items in      *)
(* pre-order: ds[1] = 0 and each next depth is at most one more than the   *)
(* previous one.  Item i is labelled i, so a label names one position of   *)
(* the tree even when identities are shared.                               *)

DepthSeqs(n) ==
    {ds \in [1..n -> 0..(n - 1)] :
        ds[1] = 0 /\ \A i \in 1..(n - 1) : ds[i + 1] <= ds[i] + 1}

SubtreeEnd(ds, i) ==
    CHOOSE j \in i..Len(ds) :
        /\ \A k \in (i + 1)..j : ds[k] > ds[i]
        /\ j = Len(ds) \/ ds[j + 1] <= ds[i]

ChildIdx(ds, i) == {j \in (i + 1)..SubtreeEnd(ds, i) : ds[j] = ds[i] + 1}

RootIdx(ds) == {j \in 1..Len(ds) : ds[j] = 0}

RECURSIVE Sorted(_)
Sorted(S) ==
    IF S = {} THEN <<>>
    ELSE LET m == CHOOSE x \in S : \A y \in S : x <= y
         IN  <<m>> \o Sorted(S \ {m})

\* An arbitrary tree built with the PickerItem builders: identities lab,
\* selectable flags sel, no icons.
RECURSIVE Item(_, _, _, _)
Item(ds, lab, sel, i) ==
    LET kids == Sorted(ChildIdx(ds, i))
    IN  selectable(
            with_children(new(lab[i], i),
                          [k \in 1..Len(kids) |-> Item(ds, lab, sel, kids[k])]),
            sel[i])

Forest(ds, lab, sel) ==
    LET roots == Sorted(RootIdx(ds))
    IN  [k \in 1..Len(roots) |-> Item(ds, lab, sel, roots[k])]

\* Identity assignments: every item its own identity, or identities shared
\* between items (which the builders do not prevent).
Labelings(n) == {[i \in 1..n |-> i], [i \in 1..n |-> 1 + (i % 2)]}

\* Selectable flags: every item selectable, or every second item not.
SelFlags(n) == {[i \in 1..n |-> TRUE], [i \in 1..n |-> i % 2 = 0],
                [i \in 1..n |-> i % 2 = 1]}

\* The host's build_tree over a directory listing ds (entries in sorted
\* order, directories first): the path is the identity, directories get the
\* folder icon and their entries as children, files the file icon; every
\* item is selectable.  An entry without entries of its own is a directory
\* when a directory with entries follows it among its siblings.
RECURSIVE build_tree(_, _)
build_tree(ds, idx) ==
    LET entries == Sorted(idx)
        is_dir(k) == \/ ChildIdx(ds, entries[k]) # {}
                     \/ \E l \in (k + 1)..Len(entries) :
                            ChildIdx(ds, entries[l]) # {}
        entry(k) ==
            IF is_dir(k)
            THEN selectable(
                     with_children(
                         with_icon(new(entries[k], entries[k]),
                                   "Folder", "NERD_FONT"),
                         build_tree(ds, ChildIdx(ds, entries[k]))),
                     TRUE)
            ELSE selectable(
                     with_icon(new(entries[k], entries[k]),
                               "File", "NERD_FONT"),
                     TRUE)
    IN  [k \in 1..Len(entries) |-> entry(k)]

----------------------------------------------------------------------------
(* Reading trees and widget trees by position.  A path is the sequence of  *)
(* child indexes leading to an item; the Column of a rendered item sits at *)
(* the same path in the widget tree, its children being the Tail of the    *)
(* Column.                                                                 *)

RECURSIVE Paths(_)
Paths(its) ==
    UNION {{<<k>>} \cup {<<k>> \o q : q \in Paths(its[k].children)} :
           k \in 1..Len(its)}

RECURSIVE ItemAt(_, _)
ItemAt(its, p) ==
    IF Len(p) = 1 THEN its[p[1]] ELSE ItemAt(its[p[1]].children, Tail(p))

RECURSIVE ColPaths(_)
ColPaths(cols) ==
    UNION {{<<k>>} \cup {<<k>> \o q : q \in ColPaths(Tail(cols[k]))} :
           k \in 1..Len(cols)}

RECURSIVE ColAt(_, _)
ColAt(cols, p) ==
    IF Len(p) = 1 THEN cols[p[1]] ELSE ColAt(Tail(cols[p[1]]), Tail(p))

\* The rows of a Column from top to bottom.
RECURSIVE Rows(_)
RECURSIVE RowsOf(_)
Rows(col) == <<col[1]>> \o RowsOf(Tail(col))
RowsOf(cols) ==
    IF cols = <<>> THEN <<>> ELSE Rows(Head(cols)) \o RowsOf(Tail(cols))

IdsOf(its) == {ItemAt(its, p).id : p \in Paths(its)}

----------------------------------------------------------------------------
(* User activation.  A press on the toggle control publishes the control's *)
(* message when it has one; a control without on_press does not capture    *)
(* the press, which then reaches the enclosing row.  A press on the row    *)
(* publishes the row's message when the row is a button.                   *)

press_toggle(col) ==
    IF col[1].content.toggle.on_press # None
    THEN col[1].content.toggle.on_press
    ELSE col[1].on_press

press_row(col) == col[1].on_press

\* Variant: the looked-up value is stored back without negation.
update_without_negation(state, message) ==
    IF message.type = "ToggleFolder"
    THEN [state EXCEPT !.expanded_folders =
             insert(@, message.path,
                    unwrap_or(get(state.expanded_folders, message.path),
                              FALSE))]
    ELSE [state EXCEPT !.selected_path = Some(message.path)]

\* The host's update.
update(state, message) ==
    IF message.type = "ToggleFolder"
    THEN LET expanded ==
                 unwrap_or(get(state.expanded_folders, message.path), FALSE)
         IN  [state EXCEPT !.expanded_folders =
                               insert(@, message.path, ~expanded)]
    ELSE [state EXCEPT !.selected_path = Some(message.path)]

\* The host's view: the picker it shows.
host_view(its, expanded) ==
    picker(its, expanded, "ToggleFolder", Some("SelectItem"), HostIndent)

----------------------------------------------------------------------------
(* The host application: State::default, then the toolkit's loop of a user *)
(* activation, the update of the published message and the next view.     *)

Init ==
    /\ \E n \in 1..MaxNodes : \E ds \in DepthSeqs(n) :
           items = build_tree(ds, RootIdx(ds))
    /\ expanded_folders = insert(EmptyMap, RootPath, TRUE)
    /\ selected_path = None
    /\ on_select = Some("SelectItem")
    /\ indent_size = HostIndent
    /\ view = host_view(items, expanded_folders)
    /\ calls = picker_calls(view)
    /\ event = [kind |-> "view", path |-> <<>>, msg |-> None]

Deliver(kind, p, m) ==
    LET state == [expanded_folders |-> expanded_folders,
                  selected_path |-> selected_path]
        next == IF m = None THEN state ELSE update(state, m[1])
    IN  /\ expanded_folders' = next.expanded_folders
        /\ selected_path' = next.selected_path
        /\ view' = host_view(items, next.expanded_folders)
        /\ calls' = picker_calls(view')
        /\ event' = [kind |-> kind, path |-> p, msg |-> m]
        /\ UNCHANGED <<items, on_select, indent_size>>

PressToggle(p) ==
    /\ p \in ColPaths(view.content)
    /\ Deliver("toggle", p, press_toggle(ColAt(view.content, p)))

PressRow(p) ==
    /\ p \in ColPaths(view.content)
    /\ Deliver("row", p, press_row(ColAt(view.content, p)))

Next ==
    \/ \E p \in ColPaths(view.content) : PressToggle(p)
    \/ \E p \in ColPaths(view.content) : PressRow(p)

Spec == Init /\ [][Next]_vars

----------------------------------------------------------------------------
(* picker on its own: any tree, expansion mapping, select callback and     *)
(* indent size; the call of picker, then a user activation of a widget it  *)
(* returned (no host processes the published message).  The widgets stay   *)
(* as they are, so an activation after another one reaches no state that   *)
(* the first activation does not reach.                                    *)

Maps(ids) == UNION {[S -> BOOLEAN] : S \in SUBSET ids}

InitPicker ==
    /\ \E n \in 1..MaxNodes : \E ds \in DepthSeqs(n) :
       \E lab \in Labelings(n) : \E sel \in SelFlags(n) :
           items = Forest(ds, lab, sel)
    /\ expanded_folders \in Maps(IdsOf(items))
    /\ selected_path = None
    /\ on_select \in {None, Some("SelectItem")}
    /\ indent_size \in IndentSizes
    /\ view = [widget |-> "scrollable", spacing |-> 2, content |-> <<>>]
    /\ calls = <<>>
    /\ event = [kind |-> "start", path |-> <<>>, msg |-> None]

Render ==
    /\ event.kind = "start"
    /\ view' = picker(items, expanded_folders, "ToggleFolder", on_select,
                      indent_size)
    /\ calls' = picker_calls(view')
    /\ event' = [kind |-> "view", path |-> <<>>, msg |-> None]
    /\ UNCHANGED <<items, expanded_folders, selected_path, on_select,
                   indent_size>>

ActivateToggle(p) ==
    /\ event.kind = "view"
    /\ p \in ColPaths(view.content)
    /\ event' = [kind |-> "toggle", path |-> p,
                 msg |-> press_toggle(ColAt(view.content, p))]
    /\ UNCHANGED <<items, expanded_folders, selected_path, on_select,
                   indent_size, view, calls>>

ActivateRow(p) ==
    /\ event.kind = "view"
    /\ p \in ColPaths(view.content)
    /\ event' = [kind |-> "row", path |-> p,
                 msg |-> press_row(ColAt(view.content, p))]
    /\ UNCHANGED <<items, expanded_folders, selected_path, on_select,
                   indent_size, view, calls>>

NextPicker ==
    \/ Render
    \/ \E p \in ColPaths(view.content) : ActivateToggle(p)
    \/ \E p \in ColPaths(view.content) : ActivateRow(p)

PickerSpec == InitPicker /\ [][NextPicker]_vars

----------------------------------------------------------------------------
(* Vocabulary of the properties.                                           *)

\* p is a proper ancestor of q.
Above(p, q) == Len(p) < Len(q) /\ SubSeq(q, 1, Len(p)) = p

Ancestors(p) == {SubSeq(p, 1, k) : k \in 1..(Len(p) - 1)}

UniqueIds == \A p, q \in Paths(items) :
                 ItemAt(items, p).id = ItemAt(items, q).id => p = q

Rendered == event.kind # "start"

\* The state right after a call of picker.  A user activation leaves the
\* widgets as they are, so what holds of them here holds until the next call.
AfterRender == event.kind = "view"

\* Positions whose row is in the output, and the output from top to bottom.
Shown == ColPaths(view.content)
ShownRows == RowsOf(view.content)
LabelsOf(rows) == [k \in 1..Len(rows) |-> rows[k].content.label]

\* All labels of the tree in depth-first pre-order.
RECURSIVE PreOrder(_)
PreOrder(its) ==
    IF its = <<>> THEN <<>>
    ELSE <<Head(its).label>> \o PreOrder(Head(its).children)
         \o PreOrder(Tail(its))

Entry(p) == get(expanded_folders, ItemAt(items, p).id)

\* C1: an item whose identity has no entry in the expansion mapping is
\* rendered collapsed: its Column holds its own row only, and no descendant
\* of it has a row in the output, whether or not it has children.
C1_AbsentEntryCollapsed ==
    AfterRender =>
        \A p \in Paths(items) :
            Entry(p) = None =>
                /\ p \in Shown => Len(ColAt(view.content, p)) = 1
                /\ \A q \in Paths(items) :
                       Above(p, q) =>
                           /\ q \notin Shown
                           /\ \A k \in 1..Len(ShownRows) :
                                  ShownRows[k].content.label
                                      # ItemAt(items, q).label

C1_Witness ==
    /\ Rendered
    /\ \E p \in Shown :
           /\ Entry(p) = None
           /\ has_children(ItemAt(items, p))
           /\ \E q \in Paths(items) : Above(p, q) /\ Entry(q) = Some(TRUE)

\* C5: an item without children never gets child Columns, whatever its
\* expansion entry is: its Column is exactly its own row.
C5_LeafIsOneRow ==
    AfterRender =>
        \A p \in Paths(items) :
            (p \in Shown /\ ~has_children(ItemAt(items, p))) =>
                /\ Len(ColAt(view.content, p)) = 1
                /\ Rows(ColAt(view.content, p))
                       = <<ColAt(view.content, p)[1]>>

C5_Witness ==
    /\ Rendered
    /\ \E p, q, r \in Shown :
           /\ ~has_children(ItemAt(items, p)) /\ Entry(p) = Some(TRUE)
           /\ ~has_children(ItemAt(items, q)) /\ Entry(q) = Some(FALSE)
           /\ ~has_children(ItemAt(items, r)) /\ Entry(r) = None

\* C7: every rendered row has indent depth * indent_size, depth being the
\* number of proper ancestors: roots have indent 0, a child one indent_size
\* more than its parent.
C7_IndentIsDepthTimesSize ==
    AfterRender =>
        \A p \in Shown :
            LET row == ColAt(view.content, p)[1].content
            IN  /\ row.indent = Cardinality(Ancestors(p)) * indent_size
                /\ Len(p) = 1 => row.indent = 0
                /\ Len(p) > 1 =>
                       row.indent =
                           ColAt(view.content, SubSeq(p, 1, Len(p) - 1))[1]
                               .content.indent + indent_size

C7_Witness ==
    /\ Rendered
    /\ \E p \in Shown :
           Len(p) = 3 /\ ColAt(view.content, p)[1].content.indent
                             = 2 * indent_size

\* C9: with unique identities, an item's row is in the output exactly when
\* every proper ancestor of the item has the expansion entry true; roots
\* are always rendered.
C9_VisibleIffAncestorsExpanded ==
    (AfterRender /\ UniqueIds) =>
        /\ \A p \in Paths(items) :
               p \in Shown <=> \A a \in Ancestors(p) : Entry(a) = Some(TRUE)
        /\ \A k \in 1..Len(items) : <<k>> \in Shown
        /\ Shown \subseteq Paths(items)

C9_Witness ==
    /\ Rendered /\ UniqueIds
    /\ \E p \in Paths(items) :
           /\ Len(p) = 3 /\ p \notin Shown
           /\ Entry(SubSeq(p, 1, 2)) = Some(TRUE)
           /\ Entry(SubSeq(p, 1, 1)) # Some(TRUE)
           /\ SubSeq(p, 1, 1) \in Shown

\* The item whose control the last user activation hit.
Hit == ItemAt(items, event.path)
Activated == event.kind \in {"toggle", "row"}

\* C3: for an item that is not selectable, or when picker got no select
\* callback, no activation of the item's row publishes a select message;
\* activating the toggle control of such an item still publishes
\* on_toggle(id) when the item has children.
C3_NoSelectWithoutCallbackOrFlag ==
    (Activated /\ (~Hit.selectable \/ on_select = None)) =>
        /\ \A k \in 1..Len(event.msg) : event.msg[k].type # "SelectItem"
        /\ event.kind = "row" => event.msg = None
        /\ (event.kind = "toggle" /\ has_children(Hit)) =>
               event.msg = Some([type |-> "ToggleFolder", path |-> Hit.id])

C3_Witness ==
    /\ event.kind = "toggle"
    /\ ~Hit.selectable /\ on_select # None /\ has_children(Hit)
    /\ event.msg = Some([type |-> "ToggleFolder", path |-> Hit.id])

\* The callback invocations a render pass makes according to the tree and
\* to what is shown: for every shown item, in output order, on_toggle(id)
\* when it has children, then the select callback on its id when it is
\* selectable and a select callback was given.
RECURSIVE CallsFor(_)
CallsFor(labels) ==
    IF labels = <<>> THEN <<>>
    ELSE LET p == CHOOSE q \in Paths(items) :
                      ItemAt(items, q).label = Head(labels)
             it == ItemAt(items, p)
         IN  (IF has_children(it)
              THEN <<[type |-> "ToggleFolder", path |-> it.id]>> ELSE <<>>)
             \o (IF it.selectable /\ on_select # None
                 THEN <<[type |-> on_select[1], path |-> it.id]>> ELSE <<>>)
             \o CallsFor(Tail(labels))

ExampleTree ==
    << with_children(new(1, 1), <<new(2, 2), new(3, 3)>>), new(4, 4) >>

C6_PreOrder ==
    AfterRender =>
        /\ LabelsOf(ShownRows)
               = SelectSeq(PreOrder(items),
                           LAMBDA l : \E p \in Shown :
                                          ItemAt(items, p).label = l)
        /\ (items = ExampleTree /\ expanded_folders = insert(EmptyMap, 1, TRUE))
               => LabelsOf(ShownRows) = <<1, 2, 3, 4>>
        /\ (items = ExampleTree
            /\ expanded_folders \in {insert(EmptyMap, 1, FALSE), EmptyMap})
               => LabelsOf(ShownRows) = <<1, 4>>

C6_Witness ==
    /\ Rendered
    /\ items = ExampleTree
    /\ expanded_folders = insert(EmptyMap, 1, TRUE)
    /\ LabelsOf(ShownRows) = <<1, 2, 3, 4>>

\* The glyph a toggle button shows: its text unless drawn transparent.
ShownGlyph(button) ==
    IF button.text_color = "TRANSPARENT" THEN None ELSE Some(button.text)

\* C8: an item with children gets a pressable toggle showing "▼" when its
\* entry is true and "▶" when it is false or absent; an item without
\* children gets a control that shows no glyph, has no on_press and
\* publishes no toggle message when activated, whatever its entry is.
C8_ToggleControl ==
    Rendered =>
        /\ AfterRender => \A p \in Shown :
               LET it == ItemAt(items, p)
                   button == ColAt(view.content, p)[1].content.toggle
               IN  IF has_children(it)
                   THEN /\ button.on_press # None
                        /\ ShownGlyph(button) =
                               IF Entry(p) = Some(TRUE) THEN Some("▼")
                               ELSE Some("▶")
                   ELSE /\ button.on_press = None
                        /\ ShownGlyph(button) = None
        /\ (event.kind = "toggle" /\ ~has_children(Hit)) =>
               \A k \in 1..Len(event.msg) :
                   event.msg[k].type # "ToggleFolder"

C8_Witness ==
    /\ event.kind = "toggle"
    /\ ~has_children(Hit) /\ Entry(event.path) = Some(TRUE)
    /\ \E p \in Shown : has_children(ItemAt(items, p))
                        /\ Entry(p) = Some(TRUE)
    /\ \E p \in Shown : has_children(ItemAt(items, p))
                        /\ Entry(p) = Some(FALSE)

\* A step in which the user's activation published a toggle message.
ToggleStep ==
    /\ event'.kind = "toggle"
    /\ event'.msg # None
    /\ event'.msg[1].type = "ToggleFolder"

\* Rows that do not belong to proper descendants of the item at n, as
\* (label, indent) pairs from top to bottom.
OutsideOf(n, rows) ==
    LET keep == SelectSeq(rows,
                    LAMBDA r : ~\E q \in Paths(items) :
                                   /\ Above(n, q)
                                   /\ ItemAt(items, q).label = r.content.label)
    IN  [k \in 1..Len(keep) |->
            <<keep[k].content.label, keep[k].content.indent>>]

\* C2: with unique identities, a toggle of item n followed by the next view
\* changes the presence of rows only for proper descendants of n: every
\* other item is shown after the toggle iff it was shown before, at the
\* same depth and in the same relative order.
C2_ToggleChangesOnlySubtree ==
    [][(ToggleStep /\ UniqueIds) =>
          /\ \A p \in Paths(items) :
                 ~Above(event'.path, p) =>
                     (p \in ColPaths(view'.content)
                          <=> p \in ColPaths(view.content))
          /\ OutsideOf(event'.path, RowsOf(view'.content))
                 = OutsideOf(event'.path, RowsOf(view.content))]_vars

C2_Witness ==
    /\ event.kind = "toggle" /\ event.msg # None
    /\ event.msg[1].type = "ToggleFolder"
    /\ UniqueIds
    /\ \E d \in Shown : Above(event.path, d)
    /\ \E q \in Shown : Len(q) = 2 /\ ~Above(event.path, q)

\* C10: the first toggle of an identity without entry creates the entry
\* true, a later toggle negates the entry, no other entry is touched, and
\* toggling the same identity once more gives a mapping under which picker
\* renders the rows it rendered before the two toggles, all other entries
\* (those of descendants included) being as they were.
C10_ToggleRoundTrip ==
    [][ToggleStep =>
          LET id == event'.msg[1].path
              twice == update([expanded_folders |-> expanded_folders',
                               selected_path |-> selected_path'],
                              event'.msg[1]).expanded_folders
          IN  /\ id \notin DOMAIN expanded_folders =>
                     expanded_folders'[id] = TRUE
              /\ id \in DOMAIN expanded_folders =>
                     expanded_folders'[id] = ~expanded_folders[id]
              /\ DOMAIN expanded_folders'
                     = (DOMAIN expanded_folders) \cup {id}
              /\ \A k \in (DOMAIN expanded_folders) \ {id} :
                     /\ expanded_folders'[k] = expanded_folders[k]
                     /\ twice[k] = expanded_folders[k]
              /\ DOMAIN twice = DOMAIN expanded_folders'
              /\ RowsOf(host_view(items, twice).content)
                     = RowsOf(view.content)]_vars

C10_Witness ==
    /\ event.kind = "toggle" /\ event.msg # None
    /\ event.msg[1].type = "ToggleFolder"
    /\ get(expanded_folders, event.msg[1].path) = Some(FALSE)
    /\ \E q \in Paths(items) :
           Above(event.path, q) /\ Entry(q) = Some(TRUE)
    /\ \E q \in Paths(items) : has_children(ItemAt(items, q))
                               /\ Entry(q) = None

====
